---- MODULE Spec2Model ----
(***************************************************************************)
(* Model of the external-book aggregation / import pipeline:               *)
(*   backend/app/api/endpoints/external.py   (interactive import, bulk)    *)
(*   backend/app/tasks/external_books.py     (Celery tasks)                *)
(*   backend/app/services/external_apis.py   (source adapters, fan-out)    *)
(*   backend/app/models/external_book.py     (the external_books table)    *)
(*                                                                         *)
(* Every request handler and every task runs in a process of Procs.  A     *)
(* step of a process is one stretch of code between two points where other *)
(* work can interleave: an awaited adapter call, a SELECT, a commit.       *)
(***************************************************************************)
EXTENDS Integers, Sequences, FiniteSets, TLC

VARIABLES
    store,      \* rows of table external_books
    next_id,    \* next value of the primary-key sequence
    deletes,    \* administrative deletes done so far
    used,       \* import / refresh calls requested so far (a bulk counts its items)
    last_ok,    \* history: per key, the id the latest successful import returned
    proc,       \* per process: the running operation and its local variables
    search,     \* the running search_all_sources call
    now,        \* datetime.utcnow(), in days
    sched,      \* the running update_stale_metadata task
    pure        \* the latest call of a parsing helper: its argument and result

importVars == <<store, next_id, deletes, used, last_ok, proc, now, sched, pure>>
vars == <<store, next_id, deletes, used, last_ok, proc, search, now, sched, pure>>

-----------------------------------------------------------------------------
(* Bounds of the model *)

\* operations started in one run of Spec
MaxOps == 2
\* items of the bulk requests of one run of SpecBulk
MaxItems == 3
MaxDeletes == 1
\* the last day of a run
MaxNow == 10

\* two workers: enough for two operations to overlap
Procs == {1, 2}

-----------------------------------------------------------------------------
(* Data *)

\* ExternalSourceEnum / ExternalSource
Sources == {"google_books", "open_library"}
\* tasks take the source as a plain str: any other value is unsupported
TaskSources == Sources \cup {"amazon"}
ExternalIds == {"b1"}
Keys == Sources \X ExternalIds

\* request.title: "" stands for None (both are falsy in `request.title or ...`)
Titles == {"", "My title"}

\* ExternalBookImportRequest (source and external_id; title as the override)
Request(src, eid, t) == [source |-> src, external_id |-> eid, title |-> t]
KeyOf(r) == <<r.source, r.external_id>>

\* a row as created before migration 002 added is_imported (server_default false)
\* NULL in a nullable DateTime column
NoTime == 0 - 1

\* the columns migration 002 added are NULL in such a row
LegacyRow(i, k) ==
    [id |-> i, source |-> k[1], external_id |-> k[2], title |-> "legacy",
     meta |-> "legacy", is_imported |-> FALSE, imported_by_id |-> 0,
     imported_book_id |-> 0, imported_at |-> NoTime, last_fetched_at |-> NoTime]

\* select(ExternalBook).where(source == .., external_id == ..)
RowsOfKey(k) == {r \in store : r.source = k[1] /\ r.external_id = k[2]}
\* db.get(ExternalBook, id)
RowsOfId(i) == {r \in store : r.id = i}

-----------------------------------------------------------------------------
(* Source adapters: getDetails *)

\* what the upstream API answers to GET /volumes/<id> or /works/<key>.json:
\* an HTTP status, or no answer at all (httpx.TimeoutException / RequestError)
HttpAnswers == {"200", "404", "429", "503", "timeout"}

\* ExternalBookResult as parsed from a 200 answer
BookData(src, eid) ==
    [external_id |-> eid, source |-> src, title |-> "Upstream title", meta |-> "upstream"]
NoData == [external_id |-> "", source |-> "", title |-> "", meta |-> ""]

\* ExternalAPIError(source, message, status_code); status_code 0 stands for None
ExternalAPIError(src, msg, code) ==
    [ok |-> FALSE, data |-> NoData, source |-> src, message |-> msg, status_code |-> code]

\* get_google_book_details / get_open_library_book_details: 404 is tested first,
\* then every other non-200 status (429 included) keeps its status code; a timeout
\* or a connection error carries no status code
get_book_details(src, eid, http) ==
    CASE http = "200" ->
           [ok |-> TRUE, data |-> BookData(src, eid), source |-> src,
            message |-> "", status_code |-> 0]
      [] http = "404" -> ExternalAPIError(src, "Book not found", 404)
      [] http = "429" -> ExternalAPIError(src, "API returned status 429", 429)
      [] http = "503" -> ExternalAPIError(src, "API returned status 503", 503)
      [] OTHER        -> ExternalAPIError(src, "Request timed out", 0)

\* str(e) of an ExternalAPIError: "<source>: <message>"
ErrorText(e) == <<e.source, e.message>>
NoError == <<"", "">>

-----------------------------------------------------------------------------
(* Outcomes *)

\* ImportResult (endpoint) / the result dict of _import_book_async (task)
Outcome(req, ok, msg, id, err) ==
    [external_id |-> req.external_id, source |-> req.source, success |-> ok,
     message |-> msg, external_book_id |-> id, error |-> err]

NoRequest == Request("", "", "")

\* what an operation handed back: nothing yet, a returned value, or an exception
NoRet ==
    [kind |-> "none", outcome |-> Outcome(NoRequest, FALSE, "", 0, NoError),
     total |-> 0, successful |-> 0, failed |-> 0, results |-> <<>>, exc |-> "",
     task_id |-> ""]

-----------------------------------------------------------------------------
(* Processes *)

\* op:   "none" | "import" | "bulk" | "task_import" | "task_bulk" | "task_update"
\* pc:   "idle" | "lookup" | "fetch" | "write" | "sleep" | "retry" | "done"
IdleProc ==
    [op |-> "none", pc |-> "idle", actor |-> 0,
     items |-> <<>>, idx |-> 0, target |-> 0,
     existing |-> 0, book_data |-> NoData,
     results |-> <<>>, successful |-> 0, failed |-> 0,
     retries |-> 0, errors |-> <<>>, countdowns |-> <<>>, state |-> "NONE",
     fetched |-> 0, start_ok |-> 0,
     loop |-> "open", ret |-> NoRet]

\* search_all_sources: its arguments, the coroutines it has built (`tasks`), the
\* position of its await loop, the requests sent and answered so far, what each
\* adapter returned (history), and the mapping under construction
IdleSearch ==
    [pc |-> "idle", sources |-> <<>>, tasks |-> <<>>, k |-> 0,
     issued |-> {}, answered |-> {}, returned |-> <<>>, results |-> <<>>, ret |-> "none",
     response |-> <<>>]

\* update_stale_metadata: its arguments, the cutoff, the ids selected, the
\* position of its loop, the ids handed to the broker (history), its counters
IdleSched ==
    [pc |-> "idle", max_age_days |-> 0, batch_size |-> 0, cutoff_date |-> 0,
     book_ids |-> <<>>, k |-> 0, queue |-> <<>>, updated |-> 0, failed |-> 0,
     fetched |-> 0, ret |-> [kind |-> "none"]]

Range(f) == {f[i] : i \in DOMAIN f}

\* no parsing helper has been called
NoCall == [fn |-> "none", pc |-> "idle", arg |-> {}, out |-> {}]

\* legacy rows that may sit in the table when the service starts
InitStores ==
    { {LegacyRow(1, k) : k \in ks} : ks \in {{}, {<<"google_books", "b1">>}} }

Init ==
    /\ store \in InitStores
    /\ next_id = 2
    /\ deletes = 0
    /\ used = 0
    /\ last_ok = [k \in Keys |-> 0]
    /\ proc = [p \in Procs |-> IdleProc]
    /\ search = IdleSearch
    /\ now = 0
    /\ sched = IdleSched
    /\ pure = NoCall

-----------------------------------------------------------------------------
(* The table's unique index and the writes *)

\* mutant: the index on (source, external_id) is not unique
ix_not_unique(k) == TRUE

\* Index("ix_external_books_source_external_id", "source", "external_id", unique=True):
\* an INSERT is accepted only when no row holds the key
ix_external_books_source_external_id(k) == RowsOfKey(k) = {}

\* mutant: the caller's title is dropped and the adapter's title is stored
ImportedRowAdapterTitle(i, req, data, actor) ==
    [id |-> i, source |-> req.source, external_id |-> req.external_id,
     title |-> data.title,
     meta |-> data.meta, is_imported |-> TRUE, imported_by_id |-> actor,
     imported_book_id |-> 0, imported_at |-> now, last_fetched_at |-> now]

\* mutant: the import leaves last_fetched_at unset
ImportedRowNotFetched(i, req, data, actor) ==
    [id |-> i, source |-> req.source, external_id |-> req.external_id,
     title |-> IF req.title # "" THEN req.title ELSE data.title,
     meta |-> data.meta, is_imported |-> TRUE, imported_by_id |-> actor,
     imported_book_id |-> 0, imported_at |-> now, last_fetched_at |-> NoTime]

\* the row both import paths write: `request.title or book_data.title` (an
\* absent and an empty override are alike to `or`), the adapter's metadata,
\* is_imported = True, imported_by_id = the actor, both stamps utcnow()
ImportedRow(i, req, data, actor) ==
    [id |-> i, source |-> req.source, external_id |-> req.external_id,
     title |-> IF req.title # "" THEN req.title ELSE data.title,
     meta |-> data.meta, is_imported |-> TRUE, imported_by_id |-> actor,
     imported_book_id |-> 0, imported_at |-> now, last_fetched_at |-> now]

\* the fields update_book_metadata overwrites on a row
\* mutant: the refresh stamps imported_at as well
RefreshedRowRestamped(row, data) ==
    [row EXCEPT !.title = data.title, !.meta = data.meta, !.last_fetched_at = now,
                !.imported_at = now]

\* mutant: the refresh clears is_imported
RefreshedRowUnimported(row, data) ==
    [row EXCEPT !.title = data.title, !.meta = data.meta, !.last_fetched_at = now,
                !.is_imported = FALSE]

RefreshedRow(row, data) ==
    [row EXCEPT !.title = data.title, !.meta = data.meta, !.last_fetched_at = now]

-----------------------------------------------------------------------------
(* Celery task options *)

\* import_single_book: max_retries=3
import_max_retries == 3
\* update_book_metadata: max_retries=3
update_max_retries == 3

MaxRetriesOf(op) == IF op = "task_update" THEN update_max_retries ELSE import_max_retries

-----------------------------------------------------------------------------
(* How each caller takes a value returned, or an exception raised, by the    *)
(* import it runs                                                            *)

CurrentItem(pr) == pr.items[pr.idx]

\* the failure dict of update_book_metadata names the record id only
TaskItem(pr) == IF pr.op = "task_update" THEN NoRequest ELSE CurrentItem(pr)

Returned(out) == [NoRet EXCEPT !.kind = "return", !.outcome = out]
Raised(exc) == [NoRet EXCEPT !.kind = "raise", !.exc = exc]

\* BulkImportResponse / the dict bulk_import_books returns
Report(pr, results, successful, failed) ==
    [NoRet EXCEPT !.kind = "return", !.total = Len(pr.items),
                  !.successful = successful, !.failed = failed, !.results = results]

\* mutant: a failed item is appended but not counted
BulkAppendMiscount(pr, out) ==
    LET results    == Append(pr.results, out)
        successful == pr.successful + (IF out.success THEN 1 ELSE 0)
        counted    == [pr EXCEPT !.results = results, !.successful = successful]
    IN  IF pr.idx = Len(pr.items)
        THEN [counted EXCEPT !.pc = "done", !.state = "SUCCESS",
                             !.ret = Report(pr, results, successful, pr.failed)]
        ELSE IF pr.op = "bulk"
        THEN [counted EXCEPT !.pc = "lookup", !.idx = pr.idx + 1]
        ELSE [counted EXCEPT !.pc = "sleep"]

\* bulk loops: append the item's outcome, count it, go on to the next item.
\* The endpoint goes straight on; the task sleeps between items
\* (`if i < len(items) - 1`).
BulkAppend(pr, out) ==
    LET results    == Append(pr.results, out)
        successful == pr.successful + (IF out.success THEN 1 ELSE 0)
        failed     == pr.failed + (IF out.success THEN 0 ELSE 1)
        counted    == [pr EXCEPT !.results = results, !.successful = successful,
                                 !.failed = failed]
    IN  IF pr.idx = Len(pr.items)
        THEN [counted EXCEPT !.pc = "done", !.state = "SUCCESS",
                             !.ret = Report(pr, results, successful, failed)]
        ELSE IF pr.op = "bulk"
        THEN [counted EXCEPT !.pc = "lookup", !.idx = pr.idx + 1]
        ELSE [counted EXCEPT !.pc = "sleep"]

\* run_async: a new event loop is made current and closed when the coroutine ends
run_async(pr) == [pr EXCEPT !.loop = "closed"]

\* the import returned `out`
AfterReturn(pr, out) ==
    CASE pr.op = "import" -> [pr EXCEPT !.pc = "done", !.ret = Returned(out)]
      [] pr.op = "bulk"   -> BulkAppend(pr, out)
      [] pr.op = "task_bulk" -> BulkAppend(run_async(pr), out)
      [] OTHER -> [run_async(pr) EXCEPT !.pc = "done", !.state = "SUCCESS",
                                        !.ret = Returned(out)]

\* mutant: the delay doubles with every retry
countdown_doubling(retries) == 60 * (2 ^ retries)

\* countdown=60 * (self.request.retries + 1), in seconds
countdown(retries) == 60 * (retries + 1)

\* mutant: the retry budget is tested one retry too late
RetryOffByOne(pr) ==
    IF pr.retries <= MaxRetriesOf(pr.op)
    THEN [pr EXCEPT !.pc = "retry", !.state = "RETRY", !.retries = pr.retries + 1,
                    !.countdowns = Append(pr.countdowns, countdown(pr.retries))]
    ELSE [pr EXCEPT !.pc = "done", !.state = "FAILURE", !.ret = Raised("ExternalAPIError")]

\* self.retry(exc=e, countdown=...): reschedules the task while
\* request.retries < max_retries, and raises exc once the budget is spent
Retry(pr) ==
    IF pr.retries < MaxRetriesOf(pr.op)
    THEN [pr EXCEPT !.pc = "retry", !.state = "RETRY", !.retries = pr.retries + 1,
                    !.countdowns = Append(pr.countdowns, countdown(pr.retries))]
    ELSE [pr EXCEPT !.pc = "done", !.state = "FAILURE", !.ret = Raised("ExternalAPIError")]

\* mutant: every ExternalAPIError is retried
ShouldRetryAlways(e) == TRUE

\* `except ExternalAPIError` of import_single_book / update_book_metadata:
\* only status 429 is retried
ShouldRetry(e) == e.status_code = 429

\* the import raised `exc` (with `e` the ExternalAPIError when it is one)
AfterRaise(pr, exc, e) ==
    LET text == IF exc = "ExternalAPIError" THEN ErrorText(e) ELSE <<"", exc>>
    IN  CASE pr.op = "import" -> [pr EXCEPT !.pc = "done", !.ret = Raised(exc)]
          [] pr.op = "bulk" ->
                BulkAppend(pr, Outcome(CurrentItem(pr), FALSE, "Import failed", 0, text))
          [] pr.op = "task_bulk" ->
                BulkAppend(run_async(pr), Outcome(CurrentItem(pr), FALSE, "", 0, text))
          [] OTHER ->
                IF exc = "ExternalAPIError" /\ ShouldRetry(e)
                THEN Retry(run_async(pr))
                ELSE [run_async(pr) EXCEPT
                        !.pc = "done", !.state = "SUCCESS",
                        !.ret = Returned(Outcome(TaskItem(pr), FALSE, "", pr.target, text))]

\* history: a successful import of a key hands out the key's record id
NoteOk(out) ==
    IF out.success /\ <<out.source, out.external_id>> \in Keys
    THEN [last_ok EXCEPT ![<<out.source, out.external_id>>] = out.external_book_id]
    ELSE last_ok

StartOk(req) == IF KeyOf(req) \in Keys THEN last_ok[KeyOf(req)] ELSE 0

-----------------------------------------------------------------------------
(* Starting an operation *)

Free(p, cost, max) == proc[p].pc \in {"idle", "done"} /\ used + cost <= max

\* the call as it starts; the worker's current event loop is what the last
\* task left
Started(p, op, pc, actor, items, target) ==
    [IdleProc EXCEPT !.op = op, !.pc = pc, !.actor = actor, !.items = items,
                     !.idx = 1, !.target = target,
                     !.state = IF op \in {"import", "bulk"} THEN "NONE" ELSE "STARTED",
                     !.loop = proc[p].loop]

Begin(p, op, pc, actor, items, target) ==
    /\ proc' = [proc EXCEPT ![p] = Started(p, op, pc, actor, items, target)]
    /\ used' = used + Len(items)

\* the requests a caller can send to the endpoints (source is the enum)
Requests == {Request(k[1], k[2], t) : k \in Keys, t \in Titles}
\* bulk items, sent without overrides
BulkItems == {Request(k[1], k[2], "") : k \in Keys}
\* task arguments: source is any string
TaskRequests == {Request(src, eid, t) : src \in TaskSources, eid \in ExternalIds, t \in Titles}
TaskBulkItems == {Request(src, eid, "") : src \in TaskSources, eid \in ExternalIds}

SeqsUpTo(S, n) == UNION {[1..m -> S] : m \in 1..n}

\* POST /external/import
StartImport(p) ==
    /\ Free(p, 1, MaxOps)
    /\ \E req \in Requests : Begin(p, "import", "lookup", p, <<req>>, 0)
    /\ UNCHANGED <<store, next_id, deletes, last_ok>>

\* POST /external/import/bulk (BulkImportRequest.items: min_length=1)
StartBulk(p) ==
    /\ \E items \in SeqsUpTo(BulkItems, MaxItems) :
          /\ Free(p, Len(items), MaxItems)
          /\ Begin(p, "bulk", "lookup", p, items, 0)
    /\ UNCHANGED <<store, next_id, deletes, last_ok>>

\* a worker picks up import_single_book(source, external_id, user_id, overrides)
StartTaskImport(p) ==
    /\ Free(p, 1, MaxOps)
    /\ \E req \in TaskRequests : Begin(p, "task_import", "fetch", p, <<req>>, 0)
    /\ UNCHANGED <<store, next_id, deletes, last_ok>>

\* a worker picks up bulk_import_books(items, user_id)
StartTaskBulk(p) ==
    /\ \E items \in SeqsUpTo(TaskBulkItems, MaxItems) :
          /\ Free(p, Len(items), MaxItems)
          /\ Begin(p, "task_bulk", "fetch", p, items, 0)
    /\ UNCHANGED <<store, next_id, deletes, last_ok>>

\* a worker picks up update_book_metadata(external_book_id)
StartTaskUpdate(p) ==
    /\ Free(p, 1, MaxOps)
    /\ \E i \in 1..(next_id - 1) : Begin(p, "task_update", "lookup", p, <<NoRequest>>, i)
    /\ UNCHANGED <<store, next_id, deletes, last_ok>>

-----------------------------------------------------------------------------
(* import_external_book: lookup, adapter call, write *)

Finish(p, out) ==
    /\ proc' = [proc EXCEPT ![p] = AfterReturn(@, out)]
    /\ last_ok' = NoteOk(out)

Fail(p, exc, e) ==
    /\ proc' = [proc EXCEPT ![p] = AfterRaise(@, exc, e)]
    /\ UNCHANGED last_ok

NoApiError == ExternalAPIError("", "", 0)

\* lines 324-341: SELECT by key; an imported row short-circuits
ImportLookup(p) ==
    LET pr   == proc[p]
        req  == CurrentItem(pr)
        rows == RowsOfKey(KeyOf(req))
        me   == [pr EXCEPT !.start_ok = StartOk(req), !.fetched = 0,
                           !.existing = 0, !.book_data = NoData]
    IN  /\ pr.op \in {"import", "bulk"} /\ pr.pc = "lookup"
        /\ IF Cardinality(rows) > 1
           THEN \* scalar_one_or_none(): MultipleResultsFound
                /\ proc' = [proc EXCEPT ![p] = AfterRaise(me, "MultipleResultsFound", NoApiError)]
                /\ UNCHANGED last_ok
           ELSE IF \E r \in rows : r.is_imported
           THEN \E r \in rows :
                   LET out == Outcome(req, TRUE, "Book already imported", r.id, NoError)
                   IN  /\ proc' = [proc EXCEPT ![p] = AfterReturn(me, out)]
                       /\ last_ok' = NoteOk(out)
           ELSE /\ proc' = [proc EXCEPT ![p] =
                              [me EXCEPT !.pc = "fetch",
                                         !.existing = IF rows = {} THEN 0
                                                      ELSE (CHOOSE r \in rows : TRUE).id]]
                /\ UNCHANGED last_ok
        /\ UNCHANGED <<store, next_id, deletes, used>>

\* mutant: the adapter's error is not caught and leaves import_external_book
fetch_failed_raises(pr, req, e) == AfterRaise(pr, "ExternalAPIError", e)

\* lines 351-358, `except ExternalAPIError as e`: a failed ImportResult is returned
fetch_failed(pr, req, e) ==
    AfterReturn(pr, Outcome(req, FALSE, "Failed to fetch book details", 0, ErrorText(e)))

\* lines 343-358: the adapter's getDetails; an ExternalAPIError becomes a failed result
ImportFetch(p) ==
    LET pr  == proc[p]
        req == CurrentItem(pr)
        me  == [pr EXCEPT !.fetched = pr.fetched + 1]
    IN  /\ pr.op \in {"import", "bulk"} /\ pr.pc = "fetch"
        /\ \E http \in HttpAnswers :
              LET r == get_book_details(req.source, req.external_id, http)
              IN  IF r.ok
                  THEN /\ proc' = [proc EXCEPT ![p] = [me EXCEPT !.pc = "write", !.book_data = r.data]]
                       /\ UNCHANGED last_ok
                  ELSE /\ proc' = [proc EXCEPT ![p] = fetch_failed(me, req, r)]
                       /\ UNCHANGED last_ok
        /\ UNCHANGED <<store, next_id, deletes, used>>

\* the UPDATE of the row a lookup found, by primary key: StaleDataError when the
\* row is gone
UpdateById(i, new) == (store \ RowsOfId(i)) \cup {new}

\* lines 371-438: UPDATE the row found by the lookup, or INSERT a new one; commit
ImportWrite(p) ==
    LET pr  == proc[p]
        req == CurrentItem(pr)
    IN  /\ pr.op \in {"import", "bulk"} /\ pr.pc = "write"
        /\ IF pr.existing # 0
           THEN IF RowsOfId(pr.existing) = {}
                THEN /\ Fail(p, "StaleDataError", NoApiError)
                     /\ UNCHANGED <<store, next_id>>
                ELSE /\ store' = UpdateById(pr.existing,
                                            ImportedRow(pr.existing, req, pr.book_data, pr.actor))
                     /\ Finish(p, Outcome(req, TRUE, "Book imported successfully",
                                          pr.existing, NoError))
                     /\ UNCHANGED next_id
           ELSE /\ next_id' = next_id + 1
                /\ IF ix_external_books_source_external_id(KeyOf(req))
                   THEN /\ store' = store \cup {ImportedRow(next_id, req, pr.book_data, pr.actor)}
                        /\ Finish(p, Outcome(req, TRUE, "Book imported successfully",
                                             next_id, NoError))
                   ELSE /\ Fail(p, "IntegrityError", NoApiError)
                        /\ UNCHANGED store
        /\ UNCHANGED <<deletes, used>>

-----------------------------------------------------------------------------
(* DELETE /external/cached/{id}: the administrative delete *)

delete_cached_book(i) ==
    /\ deletes < MaxDeletes
    /\ RowsOfId(i) # {}
    /\ store' = store \ RowsOfId(i)
    /\ last_ok' = [k \in Keys |-> IF last_ok[k] = i THEN 0 ELSE last_ok[k]]
    /\ deletes' = deletes + 1
    /\ UNCHANGED <<next_id, used, proc>>

-----------------------------------------------------------------------------
(* _import_book_async, as run by import_single_book and bulk_import_books:   *)
(* adapter call first, then lookup and write in one synchronous session      *)

\* lines 99-105: getDetails; an unsupported source raises ValueError; an
\* ExternalAPIError is not caught here
AsyncFetch(p) ==
    LET pr  == proc[p]
        req == CurrentItem(pr)
        me  == [pr EXCEPT !.start_ok = StartOk(req), !.fetched = 1,
                          !.existing = 0, !.book_data = NoData]
    IN  /\ pr.op \in {"task_import", "task_bulk"} /\ pr.pc = "fetch"
        /\ IF req.source \notin Sources
           THEN proc' = [proc EXCEPT ![p] =
                           AfterRaise([me EXCEPT !.fetched = 0], "ValueError", NoApiError)]
           ELSE \E http \in HttpAnswers :
                  LET r == get_book_details(req.source, req.external_id, http)
                  IN  IF r.ok
                      THEN proc' = [proc EXCEPT ![p] =
                                      [me EXCEPT !.pc = "lookup", !.book_data = r.data]]
                      ELSE proc' = [proc EXCEPT ![p] =
                                      AfterRaise([me EXCEPT !.errors = Append(pr.errors, r.status_code)],
                                                 "ExternalAPIError", r)]
        /\ UNCHANGED <<store, next_id, deletes, used, last_ok>>

\* lines 122-130: SELECT by key
AsyncLookup(p) ==
    LET pr   == proc[p]
        rows == RowsOfKey(KeyOf(CurrentItem(pr)))
    IN  /\ pr.op \in {"task_import", "task_bulk"} /\ pr.pc = "lookup"
        /\ IF Cardinality(rows) > 1
           THEN proc' = [proc EXCEPT ![p] = AfterRaise(pr, "MultipleResultsFound", NoApiError)]
           ELSE proc' = [proc EXCEPT ![p] =
                           [pr EXCEPT !.pc = "write",
                                      !.existing = IF rows = {} THEN 0
                                                   ELSE (CHOOSE r \in rows : TRUE).id]]
        /\ UNCHANGED <<store, next_id, deletes, used, last_ok>>

\* lines 132-200: UPDATE the row found, whatever its is_imported, or INSERT; commit
AsyncWrite(p) ==
    LET pr  == proc[p]
        req == CurrentItem(pr)
    IN  /\ pr.op \in {"task_import", "task_bulk"} /\ pr.pc = "write"
        /\ IF pr.existing # 0
           THEN IF RowsOfId(pr.existing) = {}
                THEN /\ Fail(p, "StaleDataError", NoApiError)
                     /\ UNCHANGED <<store, next_id>>
                ELSE /\ store' = UpdateById(pr.existing,
                                            ImportedRow(pr.existing, req, pr.book_data, pr.actor))
                     /\ Finish(p, Outcome(req, TRUE, "Book imported successfully",
                                          pr.existing, NoError))
                     /\ UNCHANGED next_id
           ELSE /\ next_id' = next_id + 1
                /\ IF ix_external_books_source_external_id(KeyOf(req))
                   THEN /\ store' = store \cup {ImportedRow(next_id, req, pr.book_data, pr.actor)}
                        /\ Finish(p, Outcome(req, TRUE, "Book imported successfully",
                                             next_id, NoError))
                   ELSE /\ Fail(p, "IntegrityError", NoApiError)
                        /\ UNCHANGED store
        /\ UNCHANGED <<deletes, used>>

\* the broker delivers a retried task again: the task body runs from its start
Redeliver(p) ==
    LET pr == proc[p]
    IN  /\ pr.pc = "retry"
        /\ proc' = [proc EXCEPT ![p] =
                      [pr EXCEPT !.state = "STARTED",
                                 !.pc = IF pr.op = "task_update" THEN "lookup" ELSE "fetch"]]
        /\ UNCHANGED <<store, next_id, deletes, used, last_ok>>

\* lines 269-271: asyncio.get_event_loop().run_until_complete(asyncio.sleep(0.5));
\* a closed loop refuses with RuntimeError, outside the loop's try/except
BulkSleep(p) ==
    LET pr == proc[p]
    IN  /\ pr.op = "task_bulk" /\ pr.pc = "sleep"
        /\ IF pr.loop = "closed"
           THEN proc' = [proc EXCEPT ![p] =
                           [pr EXCEPT !.pc = "done", !.state = "FAILURE",
                                      !.ret = Raised("RuntimeError")]]
           ELSE proc' = [proc EXCEPT ![p] = [pr EXCEPT !.pc = "fetch", !.idx = pr.idx + 1]]
        /\ UNCHANGED <<store, next_id, deletes, used, last_ok>>

-----------------------------------------------------------------------------
(* update_book_metadata and _update_metadata_async *)

\* mutant: a missing row is reported as a successful update
UpdateFailureSucceeds(pr, text) ==
    [pr EXCEPT !.pc = "done", !.state = "SUCCESS",
               !.ret = Returned(Outcome(NoRequest, TRUE, "Metadata updated successfully",
                                        pr.target, NoError))]

UpdateFailure(pr, text) ==
    [pr EXCEPT !.pc = "done", !.state = "SUCCESS",
               !.ret = Returned(Outcome(NoRequest, FALSE, "", pr.target, <<"", text>>))]

\* lines 303-313: db.get by id; a missing row ends the task with "Book not found"
UpdateGet(p) ==
    LET pr   == proc[p]
        rows == RowsOfId(pr.target)
    IN  /\ pr.op = "task_update" /\ pr.pc = "lookup"
        /\ IF rows = {}
           THEN proc' = [proc EXCEPT ![p] = UpdateFailure(pr, "Book not found")]
           ELSE \E r \in rows :
                   proc' = [proc EXCEPT ![p] =
                              [pr EXCEPT !.pc = "fetch",
                                         !.items = <<Request(r.source, r.external_id, "")>>]]
        /\ UNCHANGED <<store, next_id, deletes, used, last_ok>>

\* lines 345-350: getDetails
UpdateFetch(p) ==
    LET pr  == proc[p]
        req == CurrentItem(pr)
        me  == [pr EXCEPT !.fetched = 1]
    IN  /\ pr.op = "task_update" /\ pr.pc = "fetch"
        /\ IF req.source \notin Sources
           THEN proc' = [proc EXCEPT ![p] =
                           AfterRaise([me EXCEPT !.fetched = 0], "ValueError", NoApiError)]
           ELSE \E http \in HttpAnswers :
                  LET r == get_book_details(req.source, req.external_id, http)
                  IN  IF r.ok
                      THEN proc' = [proc EXCEPT ![p] =
                                      [me EXCEPT !.pc = "write", !.book_data = r.data]]
                      ELSE proc' = [proc EXCEPT ![p] =
                                      AfterRaise([me EXCEPT !.errors = Append(pr.errors, r.status_code)],
                                                 "ExternalAPIError", r)]
        /\ UNCHANGED <<store, next_id, deletes, used, last_ok>>

\* lines 362-399: db.get again, overwrite the upstream fields, commit
UpdateWrite(p) ==
    LET pr   == proc[p]
        rows == RowsOfId(pr.target)
    IN  /\ pr.op = "task_update" /\ pr.pc = "write"
        /\ IF rows = {}
           THEN /\ proc' = [proc EXCEPT ![p] = UpdateFailure(run_async(pr), "Book not found")]
                /\ UNCHANGED store
           ELSE \E r \in rows :
                   /\ store' = UpdateById(r.id, RefreshedRow(r, pr.book_data))
                   /\ proc' = [proc EXCEPT ![p] =
                                 AfterReturn(pr, Outcome(NoRequest, TRUE,
                                                         "Metadata updated successfully",
                                                         pr.target, NoError))]
        /\ UNCHANGED <<next_id, deletes, used, last_ok>>

-----------------------------------------------------------------------------
(* Source adapters: search, and the fan-out of search_all_sources *)

Query == "q"

\* what the upstream search API answers
SearchAnswers == {"200", "429", "503", "timeout"}
\* the body of a 200 answer: the total-match estimate and the parsed items
SearchBodies == {[total |-> 0, items |-> <<>>], [total |-> 7, items |-> <<"b1", "b2">>]}
\* wall-clock milliseconds a search can take
ElapsedMs == {0, 12}

\* ExternalSearchResponse
SearchResponse(src, total, items, ms) ==
    [source |-> src, query |-> Query, total_items |-> total, items |-> items,
     search_time_ms |-> ms]

\* search_google_books / search_open_library: every non-200 status, a timeout and
\* a connection error raise ExternalAPIError
search_source(src, http, body, ms) ==
    IF http = "200"
    THEN [ok |-> TRUE, response |-> SearchResponse(src, body.total, body.items, ms)]
    ELSE [ok |-> FALSE, response |-> SearchResponse("", 0, <<>>, 0)]

\* lines 571-579: the slot of a source whose search raised ExternalAPIError
EmptyResponse(src) == SearchResponse(src, 0, <<>>, 0)

\* the awaited search of `src` ended and `slot` is stored under it
StoreSlot(sr, src, r, slot) ==
    [sr EXCEPT !.answered = @ \cup {src}, !.returned = (src :> r) @@ @,
               !.results = (src :> slot) @@ @, !.k = sr.k + 1]

\* mutant: the failing search is not caught and ends search_all_sources
on_search_error_raises(sr, src, r) ==
    [sr EXCEPT !.answered = @ \cup {src}, !.returned = (src :> r) @@ @,
               !.pc = "done", !.ret = "raise"]

\* lines 571-579, `except ExternalAPIError`: the source's slot gets the empty response
on_search_error(sr, src, r) == StoreSlot(sr, src, r, EmptyResponse(src))

\* the orders in which a caller can name sources (None: both, in the default order)
SourceLists ==
    {<<"google_books">>, <<"open_library">>,
     <<"google_books", "open_library">>, <<"open_library", "google_books">>}

\* search_all_sources is called
StartSearch ==
    /\ search.pc \in {"idle", "done"}
    /\ \E srcs \in SourceLists :
          search' = [IdleSearch EXCEPT !.pc = "build", !.sources = srcs]
    /\ UNCHANGED importVars

\* lines 558-565: one coroutine object per source is put in `tasks`; calling an
\* async def function runs none of its body, so no request leaves yet
SearchBuild ==
    /\ search.pc = "build"
    /\ search' = [search EXCEPT !.pc = "await", !.tasks = search.sources, !.k = 1]
    /\ UNCHANGED importVars

\* line 570, `await task`: the k-th coroutine starts only now and sends its request
SearchIssue ==
    /\ search.pc = "await"
    /\ search.k <= Len(search.tasks)
    /\ search.tasks[search.k] \notin search.issued
    /\ search' = [search EXCEPT !.issued = @ \cup {search.tasks[search.k]}]
    /\ UNCHANGED importVars

\* lines 568-579: the awaited search ends; its response, or the empty response
\* for an ExternalAPIError, is stored and the loop moves to the next coroutine
SearchAnswer ==
    /\ search.pc = "await"
    /\ search.k <= Len(search.tasks)
    /\ search.tasks[search.k] \in search.issued
    /\ \E http \in SearchAnswers, body \in SearchBodies, ms \in ElapsedMs :
          LET src == search.tasks[search.k]
              r   == search_source(src, http, body, ms)
          IN  search' = IF r.ok THEN StoreSlot(search, src, r, r.response)
                                ELSE on_search_error(search, src, r)
    /\ UNCHANGED importVars

\* line 581: return results
SearchReturn ==
    /\ search.pc = "await"
    /\ search.k > Len(search.tasks)
    /\ search' = [search EXCEPT !.pc = "done", !.ret = "return"]
    /\ UNCHANGED importVars

\* is_imported of the row of a key, False when the key has no row
import_status(src, eid) ==
    LET rows == RowsOfKey(<<src, eid>>)
    IN  IF rows = {} THEN FALSE ELSE (CHOOSE r \in rows : TRUE).is_imported

\* search_external_books, lines 104-171: for every source a SELECT of the import
\* status of the items found, and the response built from it; nothing is written
SearchRespond ==
    /\ search.pc = "done"
    /\ search' = [search EXCEPT
                    !.pc = "responded",
                    !.response = [src \in DOMAIN search.results |->
                                    [i \in DOMAIN search.results[src].items |->
                                       [external_id |-> search.results[src].items[i],
                                        is_imported |-> import_status(src,
                                                          search.results[src].items[i])]]]]
    /\ UNCHANGED importVars

NextSearch ==
    \/ StartSearch
    \/ SearchBuild
    \/ SearchIssue
    \/ SearchAnswer
    \/ SearchReturn
    \/ SearchRespond

SpecSearch == Init /\ [][NextSearch]_vars

-----------------------------------------------------------------------------
\* single imports, background tasks and the administrative delete, interleaved
Next ==
    \/ \E p \in Procs : StartImport(p) /\ UNCHANGED <<search, now, sched, pure>>
    \/ \E p \in Procs : StartTaskImport(p) /\ UNCHANGED <<search, now, sched, pure>>
    \/ \E p \in Procs : StartTaskUpdate(p) /\ UNCHANGED <<search, now, sched, pure>>
    \/ \E p \in Procs : ImportLookup(p) /\ UNCHANGED <<search, now, sched, pure>>
    \/ \E p \in Procs : ImportFetch(p) /\ UNCHANGED <<search, now, sched, pure>>
    \/ \E p \in Procs : ImportWrite(p) /\ UNCHANGED <<search, now, sched, pure>>
    \/ \E p \in Procs : AsyncFetch(p) /\ UNCHANGED <<search, now, sched, pure>>
    \/ \E p \in Procs : AsyncLookup(p) /\ UNCHANGED <<search, now, sched, pure>>
    \/ \E p \in Procs : AsyncWrite(p) /\ UNCHANGED <<search, now, sched, pure>>
    \/ \E p \in Procs : Redeliver(p) /\ UNCHANGED <<search, now, sched, pure>>
    \/ \E p \in Procs : UpdateGet(p) /\ UNCHANGED <<search, now, sched, pure>>
    \/ \E p \in Procs : UpdateFetch(p) /\ UNCHANGED <<search, now, sched, pure>>
    \/ \E p \in Procs : UpdateWrite(p) /\ UNCHANGED <<search, now, sched, pure>>
    \/ \E i \in 1..(next_id - 1) : delete_cached_book(i) /\ UNCHANGED <<search, now, sched, pure>>

Spec == Init /\ [][Next]_vars

\* the bulk executors (endpoint and task), a concurrent single import and the
\* administrative delete
NextBulk ==
    \/ \E p \in Procs : StartBulk(p) /\ UNCHANGED <<search, now, sched, pure>>
    \/ \E p \in Procs : StartTaskBulk(p) /\ UNCHANGED <<search, now, sched, pure>>
    \/ \E p \in Procs : StartImport(p) /\ UNCHANGED <<search, now, sched, pure>>
    \/ \E p \in Procs : ImportLookup(p) /\ UNCHANGED <<search, now, sched, pure>>
    \/ \E p \in Procs : ImportFetch(p) /\ UNCHANGED <<search, now, sched, pure>>
    \/ \E p \in Procs : ImportWrite(p) /\ UNCHANGED <<search, now, sched, pure>>
    \/ \E p \in Procs : AsyncFetch(p) /\ UNCHANGED <<search, now, sched, pure>>
    \/ \E p \in Procs : AsyncLookup(p) /\ UNCHANGED <<search, now, sched, pure>>
    \/ \E p \in Procs : AsyncWrite(p) /\ UNCHANGED <<search, now, sched, pure>>
    \/ \E p \in Procs : BulkSleep(p) /\ UNCHANGED <<search, now, sched, pure>>
    \/ \E i \in 1..(next_id - 1) : delete_cached_book(i) /\ UNCHANGED <<search, now, sched, pure>>

SpecBulk == Init /\ [][NextBulk]_vars

-----------------------------------------------------------------------------
(* update_stale_metadata: the periodic scheduler of refresh tasks *)

\* rows of the tables the scheduler is run on
MaxRows == 3

\* the task's arguments; the defaults are max_age_days=7, batch_size=50
MaxAgeDays == {2, 7}
BatchSizes == {1, 2, 50}

\* row i of such a table holds key StaleKeys[i]
StaleKeys ==
    <<<<"google_books", "b1">>, <<"open_library", "b1">>,
      <<"google_books", "b2">>, <<"open_library", "b2">>>>

\* last_fetched_at of a row, the scheduler running on day MaxNow: NULL, or 10,
\* 7 or 2 days ago
FetchTimes == {NoTime, MaxNow - 10, MaxNow - 7, MaxNow - 2}

StaleRow(i, imported, t) ==
    [LegacyRow(i, StaleKeys[i]) EXCEPT
        !.is_imported = imported, !.last_fetched_at = t,
        !.imported_at = IF imported THEN 0 ELSE NoTime]

\* tables of up to MaxRows rows, any mix of cached and imported rows of any age
StaleTables ==
    UNION { { {StaleRow(i, f[i][1], f[i][2]) : i \in 1..n} :
                f \in [1..n -> BOOLEAN \X FetchTimes] } : n \in 0..MaxRows }

InitStale ==
    /\ store \in StaleTables
    /\ next_id = Cardinality(store) + 1
    /\ deletes = 0
    /\ used = 0
    /\ last_ok = [k \in Keys |-> 0]
    /\ proc = [p \in Procs |-> IdleProc]
    /\ search = IdleSearch
    /\ now = MaxNow
    /\ sched = IdleSched
    /\ pure = NoCall

\* mutant: the selection ignores is_imported
find_stale_any(cutoff) ==
    {r \in store : (r.last_fetched_at # NoTime /\ r.last_fetched_at < cutoff)
                      \/ r.last_fetched_at = NoTime}

\* WHERE is_imported = true AND (last_fetched_at < cutoff OR last_fetched_at IS NULL);
\* a NULL compares to nothing
find_stale(cutoff) ==
    {r \in store :
        /\ r.is_imported
        /\ \/ (r.last_fetched_at # NoTime /\ r.last_fetched_at < cutoff)
           \/ r.last_fetched_at = NoTime}

Min(a, b) == IF a < b THEN a ELSE b

\* .limit(batch_size) with no ORDER BY: the database returns any batch_size of the
\* matching rows, in any order
Limited(rows, n) ==
    LET ids == {r.id : r \in rows}
        m   == Min(n, Cardinality(ids))
    IN  {q \in [1..m -> ids] : \A i, j \in 1..m : q[i] = q[j] => i = j}

\* beat (or a caller) runs update_stale_metadata(max_age_days, batch_size);
\* cutoff_date = utcnow() - timedelta(days=max_age_days)
StartStale ==
    /\ sched.pc = "idle"
    /\ \E d \in MaxAgeDays, b \in BatchSizes :
          sched' = [IdleSched EXCEPT !.pc = "select", !.max_age_days = d,
                                     !.batch_size = b, !.cutoff_date = now - d]
    /\ UNCHANGED <<store, next_id, deletes, used, last_ok, proc, search, now, pure>>

\* the summary the task returns; with nothing selected the count of queued
\* tasks is under the key "updated", otherwise under "queued"
Summary(total, key, queued, failed) ==
    [kind |-> "return", total |-> total, queued_key |-> key,
     queued |-> queued, failed |-> failed]

\* lines 425-443: the SELECT, and the early return when nothing is stale
StaleSelect ==
    /\ sched.pc = "select"
    /\ \E ids \in Limited(find_stale(sched.cutoff_date), sched.batch_size) :
          sched' = IF ids = <<>>
                   THEN [sched EXCEPT !.pc = "done", !.ret = Summary(0, "updated", 0, 0)]
                   ELSE [sched EXCEPT !.pc = "enqueue", !.book_ids = ids, !.k = 1]
    /\ UNCHANGED <<store, next_id, deletes, used, last_ok, proc, search, now, pure>>

\* mutant: a failed enqueue ends the loop
enqueue_failed_aborts(sc) ==
    [sc EXCEPT !.failed = sc.failed + 1, !.k = Len(sc.book_ids)]

\* `except Exception`: the failure is logged and counted
enqueue_failed(sc) == [sc EXCEPT !.failed = sc.failed + 1]

\* update_book_metadata.delay(book_id) handed the task to the broker
enqueued(sc) ==
    [sc EXCEPT !.updated = sc.updated + 1,
               !.queue = Append(sc.queue, sc.book_ids[sc.k])]

\* lines 449-462: one turn of the loop; after the last one, the summary
StaleEnqueue ==
    /\ sched.pc = "enqueue"
    /\ \E accepted \in BOOLEAN :
          LET sc == IF accepted THEN enqueued(sched) ELSE enqueue_failed(sched)
          IN  sched' = IF sc.k >= Len(sc.book_ids)
                       THEN [sc EXCEPT !.pc = "done",
                                       !.ret = Summary(Len(sc.book_ids), "queued",
                                                       sc.updated, sc.failed)]
                       ELSE [sc EXCEPT !.k = sc.k + 1]
    /\ UNCHANGED <<store, next_id, deletes, used, last_ok, proc, search, now, pure>>

NextStale == StartStale \/ StaleSelect \/ StaleEnqueue

SpecStale == InitStale /\ [][NextStale]_vars

-----------------------------------------------------------------------------
(* GET /external/details/{source}/{external_id} *)

StartDetails(p) ==
    /\ Free(p, 1, MaxOps)
    /\ \E k \in Keys : Begin(p, "details", "fetch", p, <<Request(k[1], k[2], "")>>, 0)
    /\ UNCHANGED <<store, next_id, deletes, last_ok>>

\* lines 262-273: the adapter call; an ExternalAPIError becomes HTTP 404 or 503
DetailsFetch(p) ==
    LET pr  == proc[p]
        req == CurrentItem(pr)
    IN  /\ pr.op = "details" /\ pr.pc = "fetch"
        /\ \E http \in HttpAnswers :
              LET r == get_book_details(req.source, req.external_id, http)
              IN  proc' = [proc EXCEPT ![p] =
                     IF r.ok
                     THEN [pr EXCEPT !.pc = "lookup", !.fetched = 1, !.book_data = r.data]
                     ELSE [pr EXCEPT !.pc = "done", !.fetched = 1,
                                     !.ret = Raised(IF r.status_code = 404
                                                    THEN "HTTPException 404"
                                                    ELSE "HTTPException 503")]]
        /\ UNCHANGED <<store, next_id, deletes, used, last_ok>>

\* lines 275-305: SELECT the key's row for its import status, return the details;
\* nothing is written
DetailsStatus(p) ==
    LET pr   == proc[p]
        req  == CurrentItem(pr)
        rows == RowsOfKey(KeyOf(req))
    IN  /\ pr.op = "details" /\ pr.pc = "lookup"
        /\ proc' = [proc EXCEPT ![p] =
              IF Cardinality(rows) > 1
              THEN [pr EXCEPT !.pc = "done", !.ret = Raised("MultipleResultsFound")]
              ELSE [pr EXCEPT !.pc = "done",
                              !.existing = IF rows = {} THEN 0 ELSE (CHOOSE r \in rows : TRUE).id,
                              !.ret = Returned(Outcome(req, import_status(req.source, req.external_id),
                                                       pr.book_data.title, 0, NoError))]]
        /\ UNCHANGED <<store, next_id, deletes, used, last_ok>>

\* details lookups and explicit imports, interleaved
NextLookup ==
    \/ \E p \in Procs : StartDetails(p) /\ UNCHANGED <<search, now, sched, pure>>
    \/ \E p \in Procs : DetailsFetch(p) /\ UNCHANGED <<search, now, sched, pure>>
    \/ \E p \in Procs : DetailsStatus(p) /\ UNCHANGED <<search, now, sched, pure>>
    \/ \E p \in Procs : StartImport(p) /\ UNCHANGED <<search, now, sched, pure>>
    \/ \E p \in Procs : ImportLookup(p) /\ UNCHANGED <<search, now, sched, pure>>
    \/ \E p \in Procs : ImportFetch(p) /\ UNCHANGED <<search, now, sched, pure>>
    \/ \E p \in Procs : ImportWrite(p) /\ UNCHANGED <<search, now, sched, pure>>

SpecLookup == Init /\ [][NextLookup]_vars

-----------------------------------------------------------------------------
(* POST /external/import/bulk with a large batch *)

\* "For large batches (>10 items), the import is processed asynchronously."
async_threshold == 10

\* batches of one item more than the threshold, every item naming the same key
LargeBatches == {[i \in 1..(async_threshold + 1) |-> item] : item \in BulkItems}

\* the endpoint takes the batch like any other (items: max_length=100).  The
\* batches tried name a key already imported, so that every item is answered
\* by the lookup alone.
StartLargeBulk(p) ==
    /\ proc[p].pc \in {"idle", "done"} /\ used <= MaxOps
    /\ \E items \in LargeBatches :
          /\ StartOk(items[1]) # 0
          /\ Begin(p, "bulk", "lookup", p, items, 0)
    /\ UNCHANGED <<store, next_id, deletes, last_ok>>

\* single imports, then a large batch
NextLarge ==
    \/ \E p \in Procs : StartImport(p) /\ UNCHANGED <<search, now, sched, pure>>
    \/ \E p \in Procs : ImportLookup(p) /\ UNCHANGED <<search, now, sched, pure>>
    \/ \E p \in Procs : ImportFetch(p) /\ UNCHANGED <<search, now, sched, pure>>
    \/ \E p \in Procs : ImportWrite(p) /\ UNCHANGED <<search, now, sched, pure>>
    \/ \E p \in Procs : StartLargeBulk(p) /\ UNCHANGED <<search, now, sched, pure>>

SpecLarge == Init /\ [][NextLarge]_vars

\* days passing between two steps
TickDays == {5}

Tick ==
    /\ \E d \in TickDays : now + d <= MaxNow /\ now' = now + d
    /\ UNCHANGED <<store, next_id, deletes, used, last_ok, proc, search, sched, pure>>

\* an import followed, days later, by refresh tasks
NextRefresh ==
    \/ \E p \in Procs : StartImport(p) /\ UNCHANGED <<search, now, sched, pure>>
    \/ \E p \in Procs : ImportLookup(p) /\ UNCHANGED <<search, now, sched, pure>>
    \/ \E p \in Procs : ImportFetch(p) /\ UNCHANGED <<search, now, sched, pure>>
    \/ \E p \in Procs : ImportWrite(p) /\ UNCHANGED <<search, now, sched, pure>>
    \/ \E p \in Procs : StartTaskUpdate(p) /\ UNCHANGED <<search, now, sched, pure>>
    \/ \E p \in Procs : UpdateGet(p) /\ UNCHANGED <<search, now, sched, pure>>
    \/ \E p \in Procs : UpdateFetch(p) /\ UNCHANGED <<search, now, sched, pure>>
    \/ \E p \in Procs : UpdateWrite(p) /\ UNCHANGED <<search, now, sched, pure>>
    \/ \E p \in Procs : Redeliver(p) /\ UNCHANGED <<search, now, sched, pure>>
    \/ Tick

SpecRefresh == Init /\ [][NextRefresh]_vars

\* imports by the endpoint and by the task, and refresh tasks, as days pass
NextStamps ==
    \/ \E p \in Procs : StartImport(p) /\ UNCHANGED <<search, now, sched, pure>>
    \/ \E p \in Procs : StartTaskImport(p) /\ UNCHANGED <<search, now, sched, pure>>
    \/ \E p \in Procs : StartTaskUpdate(p) /\ UNCHANGED <<search, now, sched, pure>>
    \/ \E p \in Procs : ImportLookup(p) /\ UNCHANGED <<search, now, sched, pure>>
    \/ \E p \in Procs : ImportFetch(p) /\ UNCHANGED <<search, now, sched, pure>>
    \/ \E p \in Procs : ImportWrite(p) /\ UNCHANGED <<search, now, sched, pure>>
    \/ \E p \in Procs : AsyncFetch(p) /\ UNCHANGED <<search, now, sched, pure>>
    \/ \E p \in Procs : AsyncLookup(p) /\ UNCHANGED <<search, now, sched, pure>>
    \/ \E p \in Procs : AsyncWrite(p) /\ UNCHANGED <<search, now, sched, pure>>
    \/ \E p \in Procs : Redeliver(p) /\ UNCHANGED <<search, now, sched, pure>>
    \/ \E p \in Procs : UpdateGet(p) /\ UNCHANGED <<search, now, sched, pure>>
    \/ \E p \in Procs : UpdateFetch(p) /\ UNCHANGED <<search, now, sched, pure>>
    \/ \E p \in Procs : UpdateWrite(p) /\ UNCHANGED <<search, now, sched, pure>>
    \/ Tick

SpecStamps == Init /\ [][NextStamps]_vars

-----------------------------------------------------------------------------
(* The daily beat: update_stale_metadata runs again and again, and the        *)
(* workers run the refresh tasks it enqueues                                  *)

\* update_stale_metadata(max_age_days=7, ...)
default_max_age_days == 7

\* the upstream that fails on every call, and the one that answers
DownSources == {"google_books"}

\* tables of imported rows, each fetched 10 days ago (stale) or 2 days ago
InitEventual ==
    /\ store \in {t \in StaleTables :
                    \A r \in t : r.is_imported
                                  /\ r.last_fetched_at \in {MaxNow - 10, MaxNow - 2}}
    /\ next_id = Cardinality(store) + 1
    /\ deletes = 0
    /\ used = 0
    /\ last_ok = [k \in Keys |-> 0]
    /\ proc = [p \in Procs |-> IdleProc]
    /\ search = IdleSearch
    /\ now = MaxNow
    /\ sched = IdleSched
    /\ pure = NoCall

\* beat_schedule "update-external-metadata-daily": the next run of the task; a
\* day is long enough for the refresh tasks of the run before to have ended
BeatStale ==
    /\ sched.pc \in {"idle", "done"} /\ sched.queue = <<>>
    /\ \A p \in Procs : proc[p].pc \in {"idle", "done"}
    /\ \E b \in BatchSizes :
          sched' = [IdleSched EXCEPT !.pc = "select", !.max_age_days = default_max_age_days,
                                     !.batch_size = b,
                                     !.cutoff_date = now - default_max_age_days]
    /\ UNCHANGED <<store, next_id, deletes, used, last_ok, proc, search, now, pure>>

\* the broker is up: every update_book_metadata.delay(book_id) is accepted
BrokerUp == sched'.failed = sched.failed

\* a worker takes the oldest enqueued update_book_metadata task
Deliver(p) ==
    /\ proc[p].pc \in {"idle", "done"} /\ sched.queue # <<>>
    /\ proc' = [proc EXCEPT ![p] =
                  Started(p, "task_update", "lookup", p, <<NoRequest>>, Head(sched.queue))]
    /\ sched' = [sched EXCEPT !.queue = Tail(sched.queue)]
    /\ UNCHANGED <<store, next_id, deletes, used, last_ok, search, now, pure>>

\* getDetails of a source that is down fails on every attempt, getDetails of
\* the other source succeeds
Upstream(p) ==
    IF CurrentItem(proc[p]).source \in DownSources
    THEN proc'[p].book_data = NoData
    ELSE proc'[p].book_data # NoData

Scheduler == BeatStale \/ StaleSelect \/ (StaleEnqueue /\ BrokerUp)

Worker(p) ==
    \/ Deliver(p)
    \/ UpdateGet(p) /\ UNCHANGED <<search, now, sched, pure>>
    \/ UpdateFetch(p) /\ Upstream(p) /\ UNCHANGED <<search, now, sched, pure>>
    \/ UpdateWrite(p) /\ UNCHANGED <<search, now, sched, pure>>
    \/ Redeliver(p) /\ UNCHANGED <<search, now, sched, pure>>

NextEventual ==
    \/ BeatStale
    \/ StaleSelect
    \/ StaleEnqueue /\ BrokerUp
    \/ \E p \in Procs : Deliver(p)
    \/ \E p \in Procs : UpdateGet(p) /\ UNCHANGED <<search, now, sched, pure>>
    \/ \E p \in Procs : UpdateFetch(p) /\ Upstream(p) /\ UNCHANGED <<search, now, sched, pure>>
    \/ \E p \in Procs : UpdateWrite(p) /\ UNCHANGED <<search, now, sched, pure>>
    \/ \E p \in Procs : Redeliver(p) /\ UNCHANGED <<search, now, sched, pure>>

\* beat keeps firing and every started task body keeps running; a delivered
\* task is run by its worker
SpecEventual ==
    /\ InitEventual /\ [][NextEventual]_vars
    /\ WF_vars(Scheduler)
    /\ \A p \in Procs : WF_vars(Worker(p))

-----------------------------------------------------------------------------
(* The parsing helpers of the adapters and of the import: year of             *)
(* publication, result limit, ISBN extraction, thumbnail selection.           *)
(* An optional value is a set of at most one element: {} is None.             *)

MaxDateLen == 5
MaxRequested == 101
MaxIdentifiers == 3

\* characters a published_date is made of here: digits, a letter, the signs,
\* the underscore and the blank
DateChars == {"1", "9", "X", "+", "-", "_", " "}
Digits == {"1", "9"}
DigitValue(c) == IF c = "1" THEN 1 ELSE 9

\* published_date: None or a string
PublishedDates == {{}, {<<>>}} \cup {{d} : d \in SeqsUpTo(DateChars, MaxDateLen)}

RECURSIVE lstrip(_)
lstrip(s) == IF s # <<>> /\ Head(s) = " " THEN lstrip(Tail(s)) ELSE s

RECURSIVE rstrip(_)
rstrip(s) == IF s # <<>> /\ s[Len(s)] = " " THEN rstrip(SubSeq(s, 1, Len(s) - 1)) ELSE s

RECURSIVE decimal(_)
decimal(ds) ==
    IF ds = <<>> THEN 0
    ELSE 10 * decimal(SubSeq(ds, 1, Len(ds) - 1)) + DigitValue(ds[Len(ds)])

\* Python's int(str): blanks around the literal are dropped, one sign may lead,
\* single underscores may sit between digits; anything else is a ValueError
int(s) ==
    LET t      == rstrip(lstrip(s))
        signed == t # <<>> /\ t[1] \in {"+", "-"}
        body   == IF signed THEN Tail(t) ELSE t
        valid  == /\ body # <<>>
                  /\ body[1] \in Digits /\ body[Len(body)] \in Digits
                  /\ \A i \in 1..Len(body) : body[i] \in Digits \cup {"_"}
                  /\ \A i \in 1..(Len(body) - 1) : ~(body[i] = "_" /\ body[i + 1] = "_")
        digits == SelectSeq(body, LAMBDA c : c \in Digits)
    IN  IF valid
        THEN [ok |-> TRUE,
              value |-> IF signed /\ t[1] = "-" THEN 0 - decimal(digits) ELSE decimal(digits)]
        ELSE [ok |-> FALSE, value |-> 0]

\* `if book_data.published_date:` ... `int(date_str[:4])`, ValueError swallowed
published_year(published_date) ==
    IF published_date = {} \/ published_date = {<<>>}
    THEN {}
    ELSE LET date_str == CHOOSE d \in published_date : TRUE
             r        == int(SubSeq(date_str, 1, 4))
         IN  IF Len(date_str) >= 4 /\ r.ok THEN {r.value} ELSE {}

\* ExternalApisService.MAX_RESULTS_LIMIT
MAX_RESULTS_LIMIT == 40

Max(a, b) == IF a > b THEN a ELSE b

Requested == (0 - 2)..MaxRequested

\* search_google_books: params["maxResults"]
google_maxResults(max_results) == Min(Max(1, max_results), MAX_RESULTS_LIMIT)

\* search_open_library: params["limit"]
open_library_limit(max_results) == Min(max_results, 100)

\* volumeInfo.industryIdentifiers: type-tagged identifiers
IndustryIdentifiers ==
    {[type |-> t, identifier |-> i] : t \in {"ISBN_10", "ISBN_13", "OTHER"}, i \in {"A", "B"}}

\* doc["isbn"]: bare strings, told apart by their length
IsbnStrings == {"0306406152", "0198526636", "9780306406157", "9780198526636", "0378-5955"}

NoIsbn == [isbn_10 |-> {}, isbn_13 |-> {}]

\* _parse_google_book: every identifier of a type overwrites the one before
RECURSIVE google_isbns(_, _)
google_isbns(identifiers, acc) ==
    IF identifiers = <<>> THEN acc
    ELSE LET identifier == Head(identifiers)
             next == IF identifier.type = "ISBN_10"
                     THEN [acc EXCEPT !.isbn_10 = {identifier.identifier}]
                     ELSE IF identifier.type = "ISBN_13"
                     THEN [acc EXCEPT !.isbn_13 = {identifier.identifier}]
                     ELSE acc
         IN  google_isbns(Tail(identifiers), next)

\* _parse_open_library_book: `and not isbn_10` keeps the first of each length
RECURSIVE open_library_isbns(_, _)
open_library_isbns(isbn_list, acc) ==
    IF isbn_list = <<>> THEN acc
    ELSE LET isbn == Head(isbn_list)
             next == IF Len(isbn) = 10 /\ acc.isbn_10 = {}
                     THEN [acc EXCEPT !.isbn_10 = {isbn}]
                     ELSE IF Len(isbn) = 13 /\ acc.isbn_13 = {}
                     THEN [acc EXCEPT !.isbn_13 = {isbn}]
                     ELSE acc
         IN  open_library_isbns(Tail(isbn_list), next)

\* the named sizes of volumeInfo.imageLinks, smallest first
ImageSizes == <<"smallThumbnail", "thumbnail", "medium", "large">>

\* imageLinks: a URL under each size the upstream offers
ImageLinks ==
    UNION {{[n \in present |-> [scheme |-> sch, path |-> n]] : sch \in {"http", "https"}}
            : present \in SUBSET Range(ImageSizes)}

\* dict.get: None when the key is absent
get(d, key) == IF key \in DOMAIN d THEN {d[key]} ELSE {}

\* Python's `a or b` on optional URLs
or(a, b) == IF a # {} THEN a ELSE b

\* _parse_google_book: the `or` chain over the sizes, then http:// -> https://
thumbnail_url(image_links) ==
    LET url == or(get(image_links, "thumbnail"),
               or(get(image_links, "smallThumbnail"),
               or(get(image_links, "medium"), get(image_links, "large"))))
    IN  {[u EXCEPT !.scheme = "https"] : u \in url}

Call(fn, arg) == [fn |-> fn, pc |-> "call", arg |-> arg, out |-> {}]

InitPure ==
    /\ store = {} /\ next_id = 2 /\ deletes = 0 /\ used = 0
    /\ last_ok = [k \in Keys |-> 0]
    /\ proc = [p \in Procs |-> IdleProc]
    /\ search = IdleSearch
    /\ now = 0
    /\ sched = IdleSched
    /\ \/ \E d \in PublishedDates : pure = Call("published_year", d)
       \/ \E m \in Requested : pure = Call("google_maxResults", m)
       \/ \E m \in Requested : pure = Call("open_library_limit", m)
       \/ \E l \in {<<>>} \cup SeqsUpTo(IndustryIdentifiers, MaxIdentifiers) : pure = Call("google_isbns", l)
       \/ \E l \in {<<>>} \cup SeqsUpTo(IsbnStrings, MaxIdentifiers) : pure = Call("open_library_isbns", l)
       \/ \E links \in ImageLinks : pure = Call("thumbnail_url", links)

Return(fn, out) ==
    /\ pure.fn = fn /\ pure.pc = "call"
    /\ pure' = [pure EXCEPT !.pc = "return", !.out = out]
    /\ UNCHANGED <<store, next_id, deletes, used, last_ok, proc, search, now, sched>>

ParseYear == Return("published_year", published_year(pure.arg))
GoogleLimit == Return("google_maxResults", google_maxResults(pure.arg))
OpenLibraryLimit == Return("open_library_limit", open_library_limit(pure.arg))
GoogleIsbns == Return("google_isbns", google_isbns(pure.arg, NoIsbn))
OpenLibraryIsbns == Return("open_library_isbns", open_library_isbns(pure.arg, NoIsbn))
Thumbnail == Return("thumbnail_url", thumbnail_url(pure.arg))

NextPure ==
    \/ ParseYear
    \/ GoogleLimit
    \/ OpenLibraryLimit
    \/ GoogleIsbns
    \/ OpenLibraryIsbns
    \/ Thumbnail

SpecPure == InitPure /\ [][NextPure]_vars

-----------------------------------------------------------------------------
(* Properties *)

\* a single import call (endpoint or task) of process p has ended
ImportEnded(p) == proc[p].op \in {"import", "task_import"} /\ proc[p].pc = "done"

AlreadyImported(pr) ==
    /\ pr.ret.kind = "return"
    /\ pr.ret.outcome.success
    /\ pr.ret.outcome.external_book_id = pr.start_ok
    /\ pr.ret.outcome.message = "Book already imported"
    /\ pr.fetched = 0

\* C1: an import call that starts after a successful import of the same key (no
\* deletion since) returns success with the same record id and the message
\* "already imported" and makes no adapter call, on every import path (the
\* endpoint's import and the background import of the tasks).
C1_IdempotentImportEveryPath ==
    \A p \in Procs :
        (ImportEnded(p) /\ proc[p].start_ok # 0 /\ deletes = 0) => AlreadyImported(proc[p])

\* C1, endpoint only: import_external_book short-circuits on an imported row,
\* and a call that wrote a row made exactly one adapter call.
C1_EndpointIdempotent ==
    \A p \in Procs :
        (proc[p].op = "import" /\ proc[p].pc = "done") =>
            /\ proc[p].start_ok # 0 => AlreadyImported(proc[p])
            /\ (proc[p].ret.kind = "return" /\ proc[p].ret.outcome.success
                    /\ proc[p].start_ok = 0) => proc[p].fetched = 1

Raced(p, q) ==
    /\ p # q /\ ImportEnded(p) /\ ImportEnded(q)
    /\ KeyOf(CurrentItem(proc[p])) = KeyOf(CurrentItem(proc[q]))
    /\ proc[p].existing = 0 /\ proc[q].existing = 0
    /\ proc[p].book_data # NoData /\ proc[q].book_data # NoData
    /\ deletes = 0

\* C3: two concurrent imports of one not-yet-imported key both end with a
\* success outcome carrying the same record id, neither with an error or an
\* exception, and one record exists.
C3_ConcurrentImportsBothSucceed ==
    \A p \in Procs, q \in Procs :
        Raced(p, q) =>
            /\ proc[p].ret.kind = "return" /\ proc[q].ret.kind = "return"
            /\ proc[p].ret.outcome.success /\ proc[q].ret.outcome.success
            /\ proc[p].ret.outcome.external_book_id = proc[q].ret.outcome.external_book_id
            /\ Cardinality(RowsOfKey(KeyOf(CurrentItem(proc[p])))) = 1

\* the error texts an adapter failure (NotFound, RateLimited, AdapterUnavailable) gives
AdapterErrorTexts(req) ==
    {<<req.source, m>> : m \in {"Book not found", "API returned status 429",
                                "API returned status 503", "Request timed out"}}

\* C4: in the endpoint's import, the steps up to and including a failing adapter
\* call change no row; the failing call ends the import with a returned failed
\* outcome (success = false) that carries the adapter's error text, not an exception.
C4_AdapterErrorsContained ==
    [][\A p \in Procs :
          (proc[p].op = "import" /\ proc[p].pc \in {"lookup", "fetch"} /\ proc'[p] # proc[p]) =>
              /\ store' = store
              /\ (proc[p].pc = "fetch" /\ proc'[p].pc # "write") =>
                    /\ proc'[p].pc = "done"
                    /\ proc'[p].ret.kind = "return"
                    /\ ~proc'[p].ret.outcome.success
                    /\ proc'[p].ret.outcome.message = "Failed to fetch book details"
                    /\ proc'[p].ret.outcome.external_book_id = 0
                    /\ proc'[p].ret.outcome.error \in AdapterErrorTexts(CurrentItem(proc[p]))
      ]_vars

\* C4 witness: an import of a key with a legacy row met RateLimited, returned the
\* failed outcome, and the legacy row is as it was.
C4_Witness ==
    \E p \in Procs :
        /\ proc[p].op = "import" /\ proc[p].pc = "done"
        /\ proc[p].ret.kind = "return" /\ ~proc[p].ret.outcome.success
        /\ proc[p].ret.outcome.error = <<"google_books", "API returned status 429">>
        /\ proc[p].existing = 1
        /\ store = {LegacyRow(1, <<"google_books", "b1">>)}

\* C5: no single import ends with an unhandled exception because its INSERT hit
\* the unique index (the conflict is retried, then a structured failure).
C5_ConflictNeverUnhandled ==
    \A p \in Procs :
        (proc[p].op = "import" /\ proc[p].pc = "done") =>
            ~(proc[p].ret.kind = "raise" /\ proc[p].ret.exc = "IntegrityError")

\* C6: a finished search_all_sources returned (did not raise) a mapping with one
\* entry per requested source: the adapter's own response for a source whose
\* search succeeded, the empty response (0 items, 0 ms) for one whose search failed.
C6_FanOutIsolation ==
    search.pc = "done" =>
        /\ search.ret = "return"
        /\ DOMAIN search.results = Range(search.sources)
        /\ \A src \in Range(search.sources) :
              search.results[src] =
                 IF search.returned[src].ok THEN search.returned[src].response
                 ELSE [source |-> src, query |-> Query, total_items |-> 0,
                       items |-> <<>>, search_time_ms |-> 0]

\* C6 witness: two sources were searched, Google Books failed, Open Library
\* returned items, and the call has returned.
C6_Witness ==
    /\ search.pc = "done"
    /\ search.sources = <<"google_books", "open_library">>
    /\ ~search.returned["google_books"].ok
    /\ search.returned["open_library"].ok
    /\ search.results["open_library"].items = <<"b1", "b2">>
    /\ search.results["google_books"].items = <<>>

\* C7: once the response of any source has been awaited and received, the
\* request to every requested source has already been issued.
C7_AllRequestsIssuedFirst ==
    search.answered # {} => search.issued = Range(search.sources)

BulkEnded(p) == proc[p].op \in {"bulk", "task_bulk"} /\ proc[p].pc = "done"

\* C8: every bulk import (endpoint and task) ends by returning a report with
\* exactly one outcome per input item, whichever items failed.
C8_OneOutcomePerItem ==
    \A p \in Procs :
        BulkEnded(p) =>
            /\ proc[p].ret.kind = "return"
            /\ Len(proc[p].ret.results) = Len(proc[p].items)

\* C8, endpoint only: the synchronous bulk import always returns one outcome per item.
C8_EndpointOneOutcomePerItem ==
    \A p \in Procs :
        (proc[p].op = "bulk" /\ proc[p].pc = "done") =>
            /\ proc[p].ret.kind = "return"
            /\ Len(proc[p].ret.results) = Len(proc[p].items)

CountOf(results, ok) == Cardinality({i \in DOMAIN results : results[i].success = ok})

\* C9: in every report a bulk import returns, outcome i names input item i,
\* total is the number of items, successful and failed count the outcomes with
\* success = true and success = false, and successful + failed = total.
C9_ReportConsistent ==
    \A p \in Procs :
        (BulkEnded(p) /\ proc[p].ret.kind = "return") =>
            LET rep == proc[p].ret
            IN  /\ rep.total = Len(proc[p].items)
                /\ Len(rep.results) = rep.total
                /\ \A i \in DOMAIN rep.results :
                      /\ rep.results[i].source = proc[p].items[i].source
                      /\ rep.results[i].external_id = proc[p].items[i].external_id
                /\ rep.successful = CountOf(rep.results, TRUE)
                /\ rep.failed = CountOf(rep.results, FALSE)
                /\ rep.successful + rep.failed = rep.total

\* C9 witness: the endpoint's bulk import of three items returned total 3,
\* successful 2, failed 1, the second item failing with NotFound.
C9_Witness ==
    \E p \in Procs :
        /\ proc[p].op = "bulk" /\ proc[p].pc = "done"
        /\ proc[p].ret.total = 3 /\ proc[p].ret.successful = 2 /\ proc[p].ret.failed = 1
        /\ ~proc[p].ret.results[2].success
        /\ proc[p].ret.results[2].error[2] = "Book not found"

RetryTask(p) == proc[p].op \in {"task_import", "task_update"}

\* every attempt of the task so far met RateLimited
AlwaysRateLimited(pr) ==
    /\ Len(pr.errors) = pr.retries + 1
    /\ \A i \in DOMAIN pr.errors : pr.errors[i] = 429

\* C10: a single-import or refresh task never has more than max_retries (3)
\* retries scheduled; a task whose every attempt met RateLimited is rescheduled
\* until exactly 3 retries were scheduled and then ends in state FAILURE with
\* the ExternalAPIError as its result.
C10_BackoffTermination ==
    \A p \in Procs :
        RetryTask(p) =>
            /\ proc[p].retries <= 3
            /\ (proc[p].pc = "done" /\ AlwaysRateLimited(proc[p])) =>
                  /\ proc[p].retries = 3
                  /\ proc[p].state = "FAILURE"
                  /\ proc[p].ret.kind = "raise" /\ proc[p].ret.exc = "ExternalAPIError"
            /\ proc[p].state = "RETRY" =>
                  /\ proc[p].pc = "retry"
                  /\ Len(proc[p].errors) = proc[p].retries
                  /\ \A i \in DOMAIN proc[p].errors : proc[p].errors[i] = 429

\* C10 witness: a refresh task and an import task, each answered 429 on every
\* attempt, have both ended in FAILURE after three retries.
C10_Witness ==
    /\ proc[1].op = "task_import" /\ proc[2].op = "task_update"
    /\ \A p \in Procs :
          /\ proc[p].pc = "done" /\ proc[p].state = "FAILURE"
          /\ proc[p].retries = 3 /\ proc[p].errors = <<429, 429, 429, 429>>

\* the adapter call of the task of p has just failed with status `code`
\* (0: no status, a timeout or a connection error)
AttemptFailedWith(p, code) ==
    /\ RetryTask(p) /\ proc[p].pc = "fetch"
    /\ proc'[p].errors = Append(proc[p].errors, code)

\* the task's source is not one the task supports
UnsupportedAttempt(p) ==
    /\ RetryTask(p) /\ proc[p].pc = "fetch" /\ proc'[p] # proc[p]
    /\ CurrentItem(proc[p]).source \notin Sources

\* C11: the attempt of an import or refresh task whose adapter call answers
\* NotFound (404), or whose source is unsupported, ends the task at once with a
\* returned failure outcome (success = false); no retry is scheduled for it.
C11_NoRetryOnTerminalErrors ==
    [][\A p \in Procs :
          (AttemptFailedWith(p, 404) \/ UnsupportedAttempt(p)) =>
              /\ proc'[p].pc = "done"
              /\ proc'[p].retries = proc[p].retries
              /\ proc'[p].state # "RETRY"
              /\ proc'[p].ret.kind = "return"
              /\ ~proc'[p].ret.outcome.success
              /\ proc'[p].ret.outcome.error[2] \in {"Book not found", "ValueError"}
      ]_vars

\* C11 witness: an import task of an unsupported source and a refresh task that
\* met NotFound have both ended on their first attempt, with no retry.
C11_Witness ==
    /\ proc[1].op = "task_import" /\ proc[1].pc = "done"
    /\ CurrentItem(proc[1]).source = "amazon"
    /\ proc[1].ret.outcome.error = <<"", "ValueError">>
    /\ proc[2].op = "task_update" /\ proc[2].pc = "done"
    /\ proc[2].errors = <<404>>
    /\ proc[2].ret.kind = "return" /\ ~proc[2].ret.outcome.success
    /\ proc[1].retries = 0 /\ proc[2].retries = 0

\* C12: an import or refresh task whose first adapter call met a timeout or a
\* connection error (an ExternalAPIError without status code) does not end on
\* that attempt: it is rescheduled like a rate-limited one.
C12_TransientUnavailableRetried ==
    \A p \in Procs :
        ~(/\ RetryTask(p) /\ proc[p].pc = "done"
          /\ proc[p].errors = <<0>> /\ proc[p].retries = 0)

Frame(r) ==
    <<r.id, r.source, r.external_id, r.is_imported, r.imported_by_id,
      r.imported_book_id, r.imported_at>>

\* the step of refresh task p that wrote its row and returned success
RefreshSucceeds(p) ==
    /\ proc[p].op = "task_update" /\ proc[p].pc = "write"
    /\ proc'[p].pc = "done" /\ proc'[p].ret.outcome.success

\* C16: the step of a refresh task that succeeds changes only the task's row: it
\* sets last_fetched_at to the time of the refresh and keeps id, source,
\* external_id, is_imported, imported_by_id, imported_book_id and imported_at;
\* every other step of a refresh task (a failed adapter call included) leaves
\* every row of the table as it was.
C16_RefreshFrame ==
    [][\A p \in Procs :
          (proc[p].op = "task_update" /\ proc'[p] # proc[p]) =>
              IF RefreshSucceeds(p)
              THEN \E r \in store, r2 \in store' :
                      /\ r.id = proc[p].target /\ r2.id = r.id
                      /\ store' \ {r2} = store \ {r}
                      /\ r2.last_fetched_at = now
                      /\ Frame(r2) = Frame(r)
              ELSE store' = store
      ]_vars

\* C16 witness: a row imported on day 0 was refreshed on a later day: it is
\* still imported, imported_at is day 0 and last_fetched_at is the later day.
C16_Witness ==
    \E p \in Procs, r \in store :
        /\ proc[p].op = "task_update" /\ proc[p].pc = "done"
        /\ proc[p].ret.outcome.success /\ proc[p].target = r.id
        /\ r.is_imported /\ r.imported_at = 0
        /\ r.last_fetched_at = now /\ now > 0

\* C17: a row that holds the title its importer supplied as an override keeps
\* that title through every later step, a successful refresh included.
C17_RefreshKeepsOverrides ==
    [][\A r \in store, r2 \in store' :
          (r.id = r2.id /\ r.title = "My title") => r2.title = "My title"
      ]_vars

\* the scheduler has made its selection
Selecting == sched.pc \in {"enqueue", "done"}
Selected == Range(sched.book_ids)

\* stale at the scheduler's cutoff, stated on the row
IsStale(r) ==
    r.is_imported /\ (r.last_fetched_at = NoTime \/ r.last_fetched_at < sched.cutoff_date)
StaleIds == {r.id : r \in {x \in store : IsStale(x)}}

\* C13: the scheduler selects only imported rows whose last_fetched_at is NULL
\* or before cutoff = now - max_age_days, each once and at most batch_size of
\* them, and all of them when they are at most batch_size; with max_age_days = 7
\* an imported row fetched 10 days ago and an imported row never fetched are
\* stale, and a row fetched 2 days ago, or not imported, is never selected.
C13_StalenessSelection ==
    Selecting =>
        /\ sched.cutoff_date = now - sched.max_age_days
        /\ Selected \subseteq StaleIds
        /\ Cardinality(Selected) = Len(sched.book_ids)
        /\ Len(sched.book_ids) <= sched.batch_size
        /\ Cardinality(StaleIds) <= sched.batch_size => Selected = StaleIds
        /\ \A r \in store :
              /\ ~r.is_imported => r.id \notin Selected
              /\ sched.max_age_days = 7 =>
                    /\ (r.is_imported /\ r.last_fetched_at \in {NoTime, now - 10})
                          => r.id \in StaleIds
                    /\ r.last_fetched_at = now - 2 => r.id \notin Selected

\* C13 witness: with max_age_days = 7 and batch_size = 50, of three imported
\* rows fetched 10 days ago, 2 days ago and never, the first and the third are
\* selected.
C13_Witness ==
    /\ Selecting /\ sched.max_age_days = 7 /\ sched.batch_size = 50
    /\ store = {StaleRow(1, TRUE, now - 10), StaleRow(2, TRUE, now - 2),
                StaleRow(3, TRUE, NoTime)}
    /\ Selected = {1, 3}

\* row u was fetched less recently than row r (NULL counting as oldest)
Older(u, r) ==
    \/ u.last_fetched_at = NoTime /\ r.last_fetched_at # NoTime
    \/ /\ u.last_fetched_at # NoTime /\ r.last_fetched_at # NoTime
       /\ u.last_fetched_at < r.last_fetched_at

\* C14: no stale row left out of the selection was fetched less recently than a
\* selected row.
C14_StalenessPriority ==
    Selecting =>
        \A u \in store, r \in store :
            (IsStale(u) /\ u.id \notin Selected /\ r.id \in Selected) => ~Older(u, r)

\* C15: while the scheduler enqueues, every selected id before the current one
\* was either handed to the broker or counted as failed, a failure not ending
\* the loop; the ids handed over are selected ids, each handed over once; the
\* summary has total = queued + failed = number of selected rows; the scheduler
\* makes no adapter call.
C15_IndependentRefreshTasks ==
    /\ sched.fetched = 0
    /\ Len(sched.queue) = sched.updated
    /\ Range(sched.queue) \subseteq Selected
    /\ Cardinality(Range(sched.queue)) = Len(sched.queue)
    /\ sched.pc = "enqueue" => sched.updated + sched.failed = sched.k - 1
    /\ sched.pc = "done" =>
          /\ sched.ret.kind = "return"
          /\ sched.ret.total = Len(sched.book_ids)
          /\ sched.ret.queued = sched.updated /\ sched.ret.failed = sched.failed
          /\ sched.ret.total = sched.ret.queued + sched.ret.failed
          /\ sched.failed = 0 => Range(sched.queue) = Selected

\* C15 witness: three rows were selected, the broker refused the second one,
\* and the tasks of the first and the third were still enqueued.
C15_Witness ==
    /\ sched.pc = "done"
    /\ Len(sched.book_ids) = 3
    /\ sched.queue = <<sched.book_ids[1], sched.book_ids[3]>>
    /\ sched.ret.total = 3 /\ sched.ret.queued = 2 /\ sched.ret.failed = 1

\* C18: once a details lookup has returned a key, the table holds a row for that
\* key (cached with is_imported = false until an import promotes it).
C18_LookupCaches ==
    \A p \in Procs :
        (proc[p].op = "details" /\ proc[p].pc = "done" /\ proc[p].ret.kind = "return") =>
            RowsOfKey(KeyOf(CurrentItem(proc[p]))) # {}

\* C18, search: once the search endpoint has responded, the table holds a row
\* for every item it returned.
C18_SearchCaches ==
    search.pc = "responded" =>
        \A src \in DOMAIN search.response :
            \A i \in DOMAIN search.response[src] :
                RowsOfKey(<<src, search.response[src][i].external_id>>) # {}

\* C18, as the code has it: neither lookup writes; a row with is_imported = false
\* is a row the table held from the start.
C18_OnlyLegacyRowsAreCached ==
    \A r \in store : r.is_imported \/ r = LegacyRow(r.id, KeyOf(r))

\* C19: a bulk import request of more items than the threshold imports no item
\* inline: it produces no item outcome before it answers, and it answers with a
\* task handle (task_id).
C19_LargeBatchesInBackground ==
    \A p \in Procs :
        (proc[p].op = "bulk" /\ Len(proc[p].items) > async_threshold) =>
            /\ proc[p].results = <<>>
            /\ proc[p].pc = "done" =>
                  /\ proc[p].ret.kind = "return"
                  /\ proc[p].ret.results = <<>>
                  /\ proc[p].ret.task_id # ""

-----------------------------------------------------------------------------
(* The record an import leaves *)

ImportOps == {"import", "bulk", "task_import", "task_bulk"}

\* the step is the write of import call p and the call's outcome is a success
ImportWritten(p) ==
    /\ proc[p].op \in ImportOps /\ proc[p].pc = "write" /\ proc'[p] # proc[p]
    /\ IF proc[p].op \in {"import", "task_import"}
       THEN proc'[p].ret.kind = "return" /\ proc'[p].ret.outcome.success
       ELSE /\ Len(proc'[p].results) = Len(proc[p].results) + 1
            /\ proc'[p].results[Len(proc'[p].results)].success

-----------------------------------------------------------------------------
(* The parsing helpers *)

Returned_(fn) == pure.fn = fn /\ pure.pc = "return"

\* C22: the parsed year is the integer value of the first four characters of
\* published_date when the string has at least four characters and those four
\* are digits, and None otherwise (None, "", fewer than four characters, or
\* four characters that are not all digits).
C22_YearParsing ==
    Returned_("published_year") =>
        pure.out = IF pure.arg = {} THEN {}
                   ELSE LET d == CHOOSE x \in pure.arg : TRUE
                        IN  IF Len(d) >= 4 /\ \A i \in 1..4 : d[i] \in Digits
                            THEN {decimal(SubSeq(d, 1, 4))}
                            ELSE {}

\* C23: for every adapter's search and every requested max_results (0,
\* negative values and values above 40 included) the limit sent upstream lies
\* in 1..40.
C23_MaxResultsClamped ==
    (Returned_("google_maxResults") \/ Returned_("open_library_limit")) =>
        pure.out \in 1..40

\* the values of one type in an identifier list, in list order
RECURSIVE OfType(_, _, _)
OfType(fn, list, type) ==
    IF list = <<>> THEN <<>>
    ELSE LET e    == Head(list)
             tag  == IF fn = "google_isbns" THEN e.type
                     ELSE IF Len(e) = 10 THEN "ISBN_10"
                     ELSE IF Len(e) = 13 THEN "ISBN_13" ELSE "OTHER"
             val  == IF fn = "google_isbns" THEN e.identifier ELSE e
             rest == OfType(fn, Tail(list), type)
         IN  IF tag = type THEN <<val>> \o rest ELSE rest

First(list) == IF list = <<>> THEN {} ELSE {Head(list)}

\* C24: for every adapter and every identifier list the result's isbn_10 is the
\* first ISBN-10 of the list and its isbn_13 the first ISBN-13 (None when the
\* list has none of the type); a later identifier never replaces an earlier one.
C24_FirstIsbnWins ==
    \A fn \in {"google_isbns", "open_library_isbns"} :
        Returned_(fn) =>
            /\ pure.out.isbn_10 = First(OfType(fn, pure.arg, "ISBN_10"))
            /\ pure.out.isbn_13 = First(OfType(fn, pure.arg, "ISBN_13"))

\* the largest of the sizes imageLinks offers
Largest(image_links) ==
    LET ranks == {i \in 1..Len(ImageSizes) : ImageSizes[i] \in DOMAIN image_links}
    IN  {ImageSizes[i] : i \in {j \in ranks : \A k \in ranks : k <= j}}

\* C25: the thumbnail of a volume is the URL of the largest size that
\* imageLinks offers among smallThumbnail, thumbnail, medium and large, and it
\* is None only when imageLinks offers none of them.
C25_LargestThumbnail ==
    Returned_("thumbnail_url") =>
        {u.path : u \in pure.out} = Largest(pure.arg)

-----------------------------------------------------------------------------
(* The stamps of an imported row *)

\* C26: in every state that imports and refreshes produce, every imported row
\* has imported_at and last_fetched_at set, and last_fetched_at is not earlier
\* than imported_at.
C26_ImportStampsTogether ==
    \A r \in store :
        r.is_imported =>
            /\ r.imported_at # NoTime /\ r.last_fetched_at # NoTime
            /\ r.last_fetched_at >= r.imported_at

\* C26 witness: a row imported after day 0 was refreshed on a later day, so
\* its last_fetched_at is later than its imported_at.
C26_Witness ==
    \E p \in Procs, r \in store :
        /\ proc[p].op = "task_update" /\ proc[p].pc = "done"
        /\ proc[p].ret.outcome.success /\ proc[p].target = r.id
        /\ r.is_imported /\ r.imported_at > 0
        /\ r.last_fetched_at > r.imported_at

-----------------------------------------------------------------------------
(* Rows stay, and stay imported *)

\* C27: every step other than the administrative delete keeps every row of the
\* table (same id, same key) and keeps is_imported true where it was true: an
\* imported key stays imported until delete_cached_book removes its row.
C27_MonotoneImportState ==
    [][deletes' = deletes =>
          \A r \in store :
              \E r2 \in store' :
                  /\ r2.id = r.id /\ KeyOf(r2) = KeyOf(r)
                  /\ r.is_imported => r2.is_imported
      ]_vars

\* C27 witness: a row was imported by one call and then refreshed by a refresh
\* task, with no delete: it is still there and still imported.
C27_Witness ==
    \E p \in Procs, q \in Procs, r \in store :
        /\ ImportEnded(p) /\ proc[p].ret.kind = "return" /\ proc[p].ret.outcome.success
        /\ proc[p].ret.outcome.external_book_id = r.id
        /\ proc[q].op = "task_update" /\ proc[q].pc = "done"
        /\ proc[q].ret.outcome.success /\ proc[q].target = r.id
        /\ r.is_imported /\ r.meta = "upstream" /\ deletes = 0

-----------------------------------------------------------------------------
(* A refresh of a row that is gone *)

NotFound(pr) ==
    /\ pr.pc = "done" /\ pr.ret.kind = "return"
    /\ ~pr.ret.outcome.success /\ pr.ret.outcome.error = <<"", "Book not found">>

\* C28: no step of a refresh task adds a row; a refresh whose row is absent at
\* its lookup ends with the failure "Book not found" without a call of the
\* adapter, and a refresh whose row is gone at its write (deleted after the
\* fetch) ends with a failure and leaves the table without a row of that id.
C28_RefreshNeverCreates ==
    [][\A p \in Procs :
          (proc[p].op = "task_update" /\ proc'[p] # proc[p]) =>
              /\ {r.id : r \in store'} \subseteq {r.id : r \in store}
              /\ (RowsOfId(proc[p].target) = {} /\ proc[p].pc = "lookup") =>
                     /\ NotFound(proc'[p])
                     /\ proc'[p].fetched = proc[p].fetched
                     /\ store' = store
              /\ (RowsOfId(proc[p].target) = {} /\ proc[p].pc = "write") =>
                     /\ proc'[p].pc = "done" /\ proc'[p].ret.kind = "return"
                     /\ ~proc'[p].ret.outcome.success
                     /\ store' = store
      ]_vars

\* C28 witness: a refresh task found its row, called the adapter, and found
\* the row deleted at its write: it ended with "Book not found" and no row of
\* that id is in the table.
C28_Witness ==
    \E p \in Procs :
        /\ proc[p].op = "task_update" /\ NotFound(proc[p])
        /\ proc[p].fetched = 1 /\ proc[p].book_data # NoData
        /\ deletes = 1 /\ RowsOfId(proc[p].target) = {}

-----------------------------------------------------------------------------
(* The delay between the items of bulk_import_books *)

\* C29: in the bulk task the delay between two items is made only after an
\* item that is not the last, on an open event loop, and it never raises: the
\* task never ends with the RuntimeError of a closed loop.
C29_DelayOnUsableLoop ==
    \A p \in Procs :
        proc[p].op = "task_bulk" =>
            /\ proc[p].pc = "sleep" =>
                   /\ proc[p].idx < Len(proc[p].items)
                   /\ proc[p].loop = "open"
            /\ ~(proc[p].ret.kind = "raise" /\ proc[p].ret.exc = "RuntimeError")

-----------------------------------------------------------------------------
(* Every stale row gets its refresh *)

\* row i is imported and stale at the beat's cutoff, and its upstream answers
StaleAndUp(i) ==
    \E r \in store :
        /\ r.id = i /\ r.is_imported /\ r.source \notin DownSources
        /\ (r.last_fetched_at = NoTime \/ r.last_fetched_at < now - default_max_age_days)

\* row i has been fetched after the beat's cutoff
Fresh(i) ==
    \E r \in store :
        /\ r.id = i /\ r.last_fetched_at # NoTime
        /\ r.last_fetched_at >= now - default_max_age_days

\* C30: with the beat running again and again and every enqueued refresh task
\* run, every imported row that is stale and whose upstream answers is
\* eventually refreshed, also when more rows are stale than batch_size and
\* batch_size of them fail on every attempt.
C30_EventualRefresh ==
    \A i \in 1..MaxRows : StaleAndUp(i) ~> Fresh(i)

====
